---- MODULE Spec2Model ----
(***************************************************************************)
(* First-person movement, gravity/jump and collision core of the House of  *)
(* Commons explorer (src/src/commons-model.js, the main-application part   *)
(* from line 1188 on).                                                     *)
(*                                                                         *)
(* Numbers.  The program computes in IEEE doubles; the model computes in   *)
(* fixed point: lengths in 1/1000 world unit, velocities in 1/1000 world   *)
(* unit per second, times in milliseconds.  A vector is a tuple <<x,y,z>>. *)
(* Products that the program divides are divided with truncation (Div).    *)
(* Camera orientation is kept as a yaw of whole quarter turns, for which   *)
(* the camera's right and forward vectors are exact.                       *)
(***************************************************************************)
EXTENDS Integers, Sequences, FiniteSets, TLC

VARIABLES
  camera,            \* camera.position
  yaw,               \* camera orientation about the y axis, in quarter turns
  velocity,          \* velocity (x and z are the only components used)
  moveForward, moveBackward, moveLeft, moveRight,
  canJump, isJumping, jumpVelocity,
  collisionObjects,  \* the list the ticks read
  sceneLoaded,       \* createHouseOfCommons(...).then has run
  overviewMode,
  orbitEnabled,      \* orbitControls.enabled
  orbitTarget,       \* orbitControls.target
  isLocked,          \* controls.isLocked
  lockPending,       \* pointer-lock request the browser has not completed yet
  delta,             \* the tick size of a fixed-step scenario, in ms (0: none)
  lastOp,            \* what ran last: op is "init", "frame", a button's name,
                     \* or "event" for any other handler; again: the same
                     \* button was clicked just before
  tk,                \* what the last frame of animate did and computed
  nTicks, nEvents,   \* frames and input events so far (bounded exploration)
  loader             \* loadMPs and its caller: the promise chain's position,
                     \* the fetches made, the settlement, and mpMeshes

vars == <<camera, yaw, velocity, moveForward, moveBackward, moveLeft, moveRight,
          canJump, isJumping, jumpVelocity, collisionObjects, sceneLoaded,
          overviewMode, orbitEnabled, orbitTarget, isLocked, lockPending,
          delta, lastOp, tk, nTicks, nEvents, loader>>

-----------------------------------------------------------------------------
(* Fixed point and vectors *)

Scale == 10^3          \* model length units per world unit
Sec == 10^3            \* milliseconds per second

Abs(a) == IF a < 0 THEN -a ELSE a
Sign(a) == IF a > 0 THEN 1 ELSE IF a < 0 THEN -1 ELSE 0    \* Math.sign
Div(a, b) == IF a >= 0 THEN a \div b ELSE -((-a) \div b)   \* truncating quotient

Vec(x, y, z) == <<x, y, z>>
VAdd(a, b) == <<a[1] + b[1], a[2] + b[2], a[3] + b[3]>>
VScale(a, k) == <<a[1] * k, a[2] * k, a[3] * k>>

-----------------------------------------------------------------------------
(* Program constants *)

gravity == 30 * Scale                   \* 30.0 units/s^2
jumpHeight == 2 * Scale                 \* 2.0
playerHeight == (16 * Scale) \div 10    \* 1.6
playerRadius == (3 * Scale) \div 10     \* 0.3
Epsilon == Scale \div 100               \* the 0.01 added to a correction
CutoffDistance == 5 * Scale             \* broad-phase cutoff, 5 units
\* variant: a reach of a whole playerHeight + 0.1
GroundReach_Full == playerHeight + Scale \div 10
GroundReach == playerHeight \div 2 + Scale \div 10   \* playerHeight * 0.5 + 0.1
Damping == 10                           \* velocity -= velocity * 10.0 * delta
Acceleration == 20                      \* velocity -= direction * 20.0 * delta
Infinity == 10^9                        \* result.distance when nothing collides

\* floorCollisionBox: Box3((-20,-0.1,-20), (20,0.1,20))
floorCollisionBox ==
  [min |-> Vec(-20 * Scale, -(Scale \div 10), -20 * Scale),
   max |-> Vec(20 * Scale, Scale \div 10, 20 * Scale)]

\* Math.sqrt on fixed point: the largest r with r*r <= n
ISqrt(n) == CHOOSE r \in 0..(20 * Scale) : r * r <= n /\ (r + 1) * (r + 1) > n

\* Math.sqrt(2 * gravity * jumpHeight)
JumpSpeed == ISqrt(2 * gravity * jumpHeight)

\* camera.position.set(0, 1.6, 10)
SpawnPosition == Vec(0, playerHeight, 10 * Scale)

-----------------------------------------------------------------------------
(* Solids.  A collidable is a mesh with a position and a box geometry whose *)
(* bounding box is centred on the mesh: [pos, half, collidable].            *)

Solid(p, h) == [pos |-> p, half |-> h, collidable |-> TRUE]
Decoration(p, h) == [pos |-> p, half |-> h, collidable |-> FALSE]

\* variant: the list populated with its first collidable only
FilterCollidable_First(objects) ==
  LET kept == SelectSeq(objects, LAMBDA o : o.collidable)
  IN  IF kept = <<>> THEN <<>> ELSE <<Head(kept)>>

\* objects.filter(obj => obj.userData.collidable)
RECURSIVE FilterCollidable(_)
FilterCollidable(objects) ==
  IF objects = <<>> THEN <<>>
  ELSE IF Head(objects).collidable
       THEN <<Head(objects)>> \o FilterCollidable(Tail(objects))
       ELSE FilterCollidable(Tail(objects))

\* boundingBox.min.add(pos); boundingBox.max.add(pos); expandByScalar(radius)
ExpandedBox(object, radius) ==
  [min |-> Vec(object.pos[1] - object.half[1] - radius,
               object.pos[2] - object.half[2] - radius,
               object.pos[3] - object.half[3] - radius),
   max |-> Vec(object.pos[1] + object.half[1] + radius,
               object.pos[2] + object.half[2] + radius,
               object.pos[3] + object.half[3] + radius)]

\* Box3.containsPoint: inclusive on every face
ContainsPoint(box, p) ==
  \A i \in 1..3 : box.min[i] <= p[i] /\ p[i] <= box.max[i]

\* Box3.getCenter and Box3.getSize
BoxCenter(box) == Vec(Div(box.min[1] + box.max[1], 2),
                      Div(box.min[2] + box.max[2], 2),
                      Div(box.min[3] + box.max[3], 2))
BoxSize(box) == Vec(box.max[1] - box.min[1],
                    box.max[2] - box.min[2],
                    box.max[3] - box.min[3])

\* variant: no broad-phase cutoff
TooFar_Never(a, b) == FALSE

\* a.distanceTo(b) > 5, on squares; a component beyond the cutoff decides
\* alone, which also keeps the squares small
TooFar(a, b) ==
  LET d == Vec(Abs(a[1] - b[1]), Abs(a[2] - b[2]), Abs(a[3] - b[3]))
  IN  \/ d[1] > CutoffDistance
      \/ d[2] > CutoffDistance
      \/ d[3] > CutoffDistance
      \/ d[1] * d[1] + d[2] * d[2] + d[3] * d[3] > CutoffDistance * CutoffDistance

NoCollision ==
  [colliding |-> FALSE, normal |-> Vec(0, 0, 0), distance |-> Infinity, object |-> 0]

\* variant: ties between axes resolved z before y before x
Penetration_ZFirst(box, position) ==
  LET center == BoxCenter(box)
      size == BoxSize(box)
      ox == position[1] - center[1]
      oy == position[2] - center[2]
      oz == position[3] - center[3]
      zLEx == Abs(oz) * size[1] <= Abs(ox) * size[3]
      zLEy == Abs(oz) * size[2] <= Abs(oy) * size[3]
      yLEx == Abs(oy) * size[1] <= Abs(ox) * size[2]
      yLEz == Abs(oy) * size[3] <= Abs(oz) * size[2]
  IN  IF zLEx /\ zLEy
      THEN [normal |-> Vec(0, 0, Sign(oz)), distance |-> Div(size[3] - Abs(oz), 2)]
      ELSE IF yLEx /\ yLEz
      THEN [normal |-> Vec(0, Sign(oy), 0), distance |-> Div(size[2] - Abs(oy), 2)]
      ELSE [normal |-> Vec(Sign(ox), 0, 0), distance |-> Div(size[1] - Abs(ox), 2)]

\* The normal and distance computed for a position inside an expanded box:
\* d = (position - center) / size per axis, the axis with the smallest |d|
\* (x before y before z), normal = sign of d on it,
\* distance = size/2 - |d| * size/2.
Penetration(box, position) ==
  LET center == BoxCenter(box)
      size == BoxSize(box)
      ox == position[1] - center[1]
      oy == position[2] - center[2]
      oz == position[3] - center[3]
      \* absDx <= absDy  <=>  |ox| / size.x <= |oy| / size.y
      xLEy == Abs(ox) * size[2] <= Abs(oy) * size[1]
      xLEz == Abs(ox) * size[3] <= Abs(oz) * size[1]
      yLEx == Abs(oy) * size[1] <= Abs(ox) * size[2]
      yLEz == Abs(oy) * size[3] <= Abs(oz) * size[2]
  IN  IF xLEy /\ xLEz
      THEN [normal |-> Vec(Sign(ox), 0, 0), distance |-> Div(size[1] - Abs(ox), 2)]
      ELSE IF yLEx /\ yLEz
      THEN [normal |-> Vec(0, Sign(oy), 0), distance |-> Div(size[2] - Abs(oy), 2)]
      ELSE [normal |-> Vec(0, 0, Sign(oz)), distance |-> Div(size[3] - Abs(oz), 2)]

\* variant: a later solid at the same distance replaces the earlier one
CollideWith_LastOnTie(result, objects, i, position, radius) ==
  LET object == objects[i]
      box == ExpandedBox(object, radius)
      pen == Penetration(box, position)
  IN  IF TooFar(object.pos, position) THEN result
      ELSE IF ~ContainsPoint(box, position) THEN result
      ELSE IF pen.distance <= result.distance
      THEN [colliding |-> TRUE, normal |-> pen.normal,
            distance |-> pen.distance, object |-> i]
      ELSE result

\* One iteration of the loop over collisionObjects
CollideWith(result, objects, i, position, radius) ==
  LET object == objects[i]
      box == ExpandedBox(object, radius)
      pen == Penetration(box, position)
  IN  IF TooFar(object.pos, position) THEN result
      ELSE IF ~ContainsPoint(box, position) THEN result
      ELSE IF pen.distance < result.distance
      THEN [colliding |-> TRUE, normal |-> pen.normal,
            distance |-> pen.distance, object |-> i]
      ELSE result

RECURSIVE CollideFrom(_, _, _, _, _)
CollideFrom(result, objects, i, position, radius) ==
  IF i > Len(objects) THEN result
  ELSE CollideFrom(CollideWith(result, objects, i, position, radius),
                   objects, i + 1, position, radius)

\* variant: the floor plane checked only when no solid collides
CheckCollisionsIn_SolidsFirst(objects, position, radius) ==
  LET playerBottom == position[2] - playerHeight \div 2
      met == CollideFrom(NoCollision, objects, 1, position, radius)
  IN  IF met.colliding THEN met
      ELSE IF playerBottom <= floorCollisionBox.max[2]
      THEN [colliding |-> TRUE, normal |-> Vec(0, 1, 0),
            distance |-> floorCollisionBox.max[2] - playerBottom, object |-> 0]
      ELSE NoCollision

\* checkCollisions(position, radius) against a given list
CheckCollisionsIn(objects, position, radius) ==
  LET playerBottom == position[2] - playerHeight \div 2
  IN  IF playerBottom <= floorCollisionBox.max[2]
      THEN [colliding |-> TRUE, normal |-> Vec(0, 1, 0),
            distance |-> floorCollisionBox.max[2] - playerBottom, object |-> 0]
      ELSE IF Len(objects) = 0 THEN NoCollision
      ELSE CollideFrom(NoCollision, objects, 1, position, radius)

checkCollisions(position, radius) ==
  CheckCollisionsIn(collisionObjects, position, radius)

\* The downward ray of checkGround meets a solid on its top face, when the
\* origin is over the solid and not below the face (faces are one-sided, so
\* an origin inside a solid does not meet it).
RayHits(objects, position) ==
  {i \in 1..Len(objects) :
     /\ Abs(position[1] - objects[i].pos[1]) <= objects[i].half[1]
     /\ Abs(position[3] - objects[i].pos[3]) <= objects[i].half[3]
     /\ objects[i].pos[2] + objects[i].half[2] <= position[2]}

TopOf(object) == object.pos[2] + object.half[2]

\* variant: no fallback to the world floor
CheckGroundIn_NoFallback(objects, position) ==
  LET hits == RayHits(objects, position)
      first == CHOOSE i \in hits : \A j \in hits : TopOf(objects[j]) <= TopOf(objects[i])
  IN  IF hits # {} /\ position[2] - TopOf(objects[first]) < GroundReach
      THEN [onGround |-> TRUE, groundY |-> TopOf(objects[first])]
      ELSE [onGround |-> FALSE, groundY |-> 0]

\* variant: the farthest hit taken as intersects[0]
CheckGroundIn_Farthest(objects, position) ==
  LET hits == RayHits(objects, position)
      first == CHOOSE i \in hits : \A j \in hits : TopOf(objects[i]) <= TopOf(objects[j])
  IN  IF hits # {} /\ position[2] - TopOf(objects[first]) < GroundReach
      THEN [onGround |-> TRUE, groundY |-> TopOf(objects[first])]
      ELSE IF position[2] <= playerHeight
      THEN [onGround |-> TRUE, groundY |-> 0]
      ELSE [onGround |-> FALSE, groundY |-> 0]

\* checkGround(position) against a given list; intersects[0] is the nearest hit
CheckGroundIn(objects, position) ==
  LET hits == RayHits(objects, position)
      first == CHOOSE i \in hits : \A j \in hits : TopOf(objects[j]) <= TopOf(objects[i])
  IN  IF hits # {} /\ position[2] - TopOf(objects[first]) < GroundReach
      THEN [onGround |-> TRUE, groundY |-> TopOf(objects[first])]
      ELSE IF position[2] <= playerHeight
      THEN [onGround |-> TRUE, groundY |-> 0]
      ELSE [onGround |-> FALSE, groundY |-> 0]

checkGround(position) == CheckGroundIn(collisionObjects, position)

-----------------------------------------------------------------------------
(* Camera frame.  PointerLockControls.moveRight moves the camera along the  *)
(* camera's right vector, moveForward along up x right, both horizontal.    *)

Yaws == 0..3
RightVector(q) ==
  CASE q = 0 -> Vec(1, 0, 0) [] q = 1 -> Vec(0, 0, -1)
    [] q = 2 -> Vec(-1, 0, 0) [] q = 3 -> Vec(0, 0, 1)
ForwardVector(q) ==
  CASE q = 0 -> Vec(0, 0, -1) [] q = 1 -> Vec(-1, 0, 0)
    [] q = 2 -> Vec(0, 0, 1) [] q = 3 -> Vec(1, 0, 0)

\* a component of a normalised two-axis direction, 1/sqrt(2)
UnitDiagonal == Div(Scale * Scale, ISqrt(2 * Scale * Scale))

\* direction.z = forward - backward; direction.x = right - left; normalize()
Direction ==
  LET dz == (IF moveForward THEN 1 ELSE 0) - (IF moveBackward THEN 1 ELSE 0)
      dx == (IF moveRight THEN 1 ELSE 0) - (IF moveLeft THEN 1 ELSE 0)
  IN  IF dx # 0 /\ dz # 0
      THEN [x |-> dx * UnitDiagonal, z |-> dz * UnitDiagonal]
      ELSE [x |-> dx * Scale, z |-> dz * Scale]

-----------------------------------------------------------------------------
(* What a frame records *)

NoGround == [onGround |-> FALSE, groundY |-> 0]

BodyState ==
  [camera |-> camera, velocity |-> velocity, jumpVelocity |-> jumpVelocity,
   isJumping |-> isJumping, canJump |-> canJump]

\* the record of a frame that ran none of the first-person steps from body
Untouched(branch, body) ==
  [branch |-> branch,
   groundCalled |-> FALSE, ground |-> NoGround, probe |-> Vec(0, 0, 0),
   groundSaw |-> <<>>,
   collisionCalled |-> FALSE, collision |-> NoCollision, query |-> Vec(0, 0, 0),
   collisionSaw |-> <<>>,
   dt |-> 0, pre |-> body,
   integrated |-> body, landed |-> body, fallen |-> body, clamped |-> body]

Frame0(branch) == Untouched(branch, BodyState)

-----------------------------------------------------------------------------
(* Pointer lock.  controls.lock() and controls.unlock() ask the browser;    *)
(* isLocked changes when the browser reports the change.                    *)

UnlockRequested == IF isLocked THEN "unlock" ELSE lockPending

\* variant: the lock requested in any mode
DocumentClickPending_AnyMode(overview, pending) ==
  IF ~isLocked THEN "lock" ELSE pending

\* document click handler: if (!controls.isLocked && !overviewMode) controls.lock()
DocumentClickPending(overview, pending) ==
  IF ~isLocked /\ ~overview THEN "lock" ELSE pending

-----------------------------------------------------------------------------
(* Handlers *)

Did(name) == [op |-> name, again |-> FALSE]
DidClick(name) == [op |-> name, again |-> lastOp.op = name]

Keys == {"ArrowUp", "KeyW", "ArrowLeft", "KeyA", "ArrowDown", "KeyS",
         "ArrowRight", "KeyD", "Space"}

bodyVars == <<camera, velocity, canJump, isJumping, jumpVelocity>>
flagVars == <<moveForward, moveBackward, moveLeft, moveRight>>
modeVars == <<overviewMode, orbitEnabled, orbitTarget>>
lockVars == <<isLocked, lockPending>>

\* variant: the trigger without its canJump gate
JumpTrigger_Ungated ==
  /\ jumpVelocity' = JumpSpeed
  /\ isJumping' = TRUE
  /\ canJump' = FALSE

\* variant: the trigger accepted in locked first-person play only
JumpTrigger_FirstPersonOnly ==
  IF canJump /\ isLocked /\ ~overviewMode
  THEN /\ jumpVelocity' = JumpSpeed
       /\ isJumping' = TRUE
       /\ canJump' = FALSE
  ELSE UNCHANGED <<jumpVelocity, isJumping, canJump>>

\* variant: the trigger leaving canJump set
JumpTrigger_KeepsCanJump ==
  IF canJump
  THEN /\ jumpVelocity' = JumpSpeed
       /\ isJumping' = TRUE
       /\ canJump' = canJump
  ELSE UNCHANGED <<jumpVelocity, isJumping, canJump>>

\* keydown: case 'Space'
JumpTrigger ==
  IF canJump
  THEN /\ jumpVelocity' = JumpSpeed
       /\ isJumping' = TRUE
       /\ canJump' = FALSE
  ELSE UNCHANGED <<jumpVelocity, isJumping, canJump>>

KeyDown(code) ==
  /\ moveForward' = IF code \in {"ArrowUp", "KeyW"} THEN TRUE ELSE moveForward
  /\ moveLeft' = IF code \in {"ArrowLeft", "KeyA"} THEN TRUE ELSE moveLeft
  /\ moveBackward' = IF code \in {"ArrowDown", "KeyS"} THEN TRUE ELSE moveBackward
  /\ moveRight' = IF code \in {"ArrowRight", "KeyD"} THEN TRUE ELSE moveRight
  /\ IF code = "Space" THEN JumpTrigger
     ELSE UNCHANGED <<jumpVelocity, isJumping, canJump>>
  /\ lastOp' = Did("event")
  /\ UNCHANGED <<camera, yaw, velocity, collisionObjects, sceneLoaded,
                 modeVars, lockVars, tk>>

\* variant: a keyup that leaves the flags as they are
KeyUp_Ignored(code) ==
  /\ lastOp' = Did("event")
  /\ UNCHANGED <<bodyVars, yaw, flagVars, collisionObjects, sceneLoaded,
                 modeVars, lockVars, tk>>

KeyUp(code) ==
  /\ moveForward' = IF code \in {"ArrowUp", "KeyW"} THEN FALSE ELSE moveForward
  /\ moveLeft' = IF code \in {"ArrowLeft", "KeyA"} THEN FALSE ELSE moveLeft
  /\ moveBackward' = IF code \in {"ArrowDown", "KeyS"} THEN FALSE ELSE moveBackward
  /\ moveRight' = IF code \in {"ArrowRight", "KeyD"} THEN FALSE ELSE moveRight
  /\ lastOp' = Did("event")
  /\ UNCHANGED <<bodyVars, yaw, collisionObjects, sceneLoaded,
                 modeVars, lockVars, tk>>

\* a click anywhere but on a button
DocumentClick ==
  /\ lockPending' = DocumentClickPending(overviewMode, lockPending)
  /\ lastOp' = Did("event")
  /\ UNCHANGED <<bodyVars, yaw, flagVars, collisionObjects, sceneLoaded,
                 modeVars, isLocked, tk>>

\* camera.position.set(0, 15, 0)
OverviewPosition == Vec(0, 15 * Scale, 0)

\* a click on viewModeButton: its handler, then the document's
ToggleClick ==
  /\ overviewMode' = ~overviewMode
  /\ IF ~overviewMode
     THEN /\ orbitEnabled' = TRUE
          /\ camera' = OverviewPosition
          /\ yaw' = 0
          /\ lockPending' = DocumentClickPending(TRUE, UnlockRequested)
     ELSE /\ orbitEnabled' = FALSE
          /\ UNCHANGED <<camera, yaw>>
          /\ lockPending' = DocumentClickPending(FALSE, lockPending)
  /\ lastOp' = DidClick("viewMode")
  /\ UNCHANGED <<velocity, canJump, isJumping, jumpVelocity, flagVars,
                 collisionObjects, sceneLoaded, orbitTarget, isLocked, tk>>

\* the viewpoints table; yaw is the heading of position -> target
viewpoints ==
  <<[name |-> "Speaker's Chair", position |-> Vec(0, 2 * Scale, -10 * Scale),
     target |-> Vec(0, Scale, 0), yaw |-> 2],
    [name |-> "Government Frontbench", position |-> Vec(2 * Scale, 2 * Scale, 0),
     target |-> Vec(-2 * Scale, Scale, 0), yaw |-> 1],
    [name |-> "Opposition Frontbench", position |-> Vec(-2 * Scale, 2 * Scale, 0),
     target |-> Vec(2 * Scale, Scale, 0), yaw |-> 3],
    [name |-> "Center of Chamber", position |-> Vec(0, 5 * Scale, 0),
     target |-> Vec(0, 0, -5 * Scale), yaw |-> 0],
    [name |-> "Public Gallery", position |-> Vec(0, 8 * Scale, 12 * Scale),
     target |-> Vec(0, Scale, 0), yaw |-> 0]>>

\* variant: the viewpoint button toggling the mode like viewModeButton
ViewpointMode_Toggle(current) == ~current

\* overviewMode = true
ViewpointMode(current) == TRUE

\* variant: a viewpoint click that leaves the orbit controller as it was
ViewpointClick_NoOrbit(v) ==
  /\ overviewMode' = ViewpointMode(overviewMode)
  /\ lockPending' = DocumentClickPending(TRUE, UnlockRequested)
  /\ camera' = viewpoints[v].position
  /\ orbitTarget' = viewpoints[v].target
  /\ yaw' = viewpoints[v].yaw
  /\ lastOp' = DidClick(viewpoints[v].name)
  /\ UNCHANGED <<velocity, canJump, isJumping, jumpVelocity, flagVars,
                 collisionObjects, sceneLoaded, isLocked, orbitEnabled, tk>>

\* a click on a viewpoint button: its handler, then the document's
ViewpointClick(v) ==
  /\ overviewMode' = ViewpointMode(overviewMode)
  /\ lockPending' = DocumentClickPending(TRUE, UnlockRequested)
  /\ orbitEnabled' = TRUE
  /\ camera' = viewpoints[v].position
  /\ orbitTarget' = viewpoints[v].target
  /\ yaw' = viewpoints[v].yaw
  /\ lastOp' = DidClick(viewpoints[v].name)
  /\ UNCHANGED <<velocity, canJump, isJumping, jumpVelocity, flagVars,
                 collisionObjects, sceneLoaded, isLocked, tk>>

\* the browser completes a pointer-lock request (pointerlockchange)
PointerLockChange ==
  /\ lockPending # "none"
  /\ isLocked' = (lockPending = "lock")
  /\ lockPending' = "none"
  /\ lastOp' = Did("event")
  /\ UNCHANGED <<bodyVars, yaw, flagVars, collisionObjects, sceneLoaded,
                 modeVars, tk>>

\* the user leaves pointer lock (Escape)
EscapeUnlock ==
  /\ isLocked
  /\ isLocked' = FALSE
  /\ lastOp' = Did("event")
  /\ UNCHANGED <<bodyVars, yaw, flagVars, collisionObjects, sceneLoaded,
                 modeVars, lockPending, tk>>

\* mouse movement while locked turns the camera
MouseLook(q) ==
  /\ isLocked
  /\ q # yaw
  /\ yaw' = q
  /\ lastOp' = Did("event")
  /\ UNCHANGED <<bodyVars, flagVars, collisionObjects, sceneLoaded,
                 modeVars, lockVars, tk>>

\* createHouseOfCommons(scene).then(objects => ...)
SceneLoaded(objects) ==
  /\ ~sceneLoaded
  /\ sceneLoaded' = TRUE
  /\ collisionObjects' = FilterCollidable(objects)
  /\ lastOp' = Did("event")
  /\ UNCHANGED <<bodyVars, yaw, flagVars, modeVars, lockVars, tk>>

-----------------------------------------------------------------------------
(* animate: one frame.  The three branches of "Update controls based on     *)
(* mode" are three actions.                                                 *)

\* positions an orbit drag can bring the camera to (orbitControls.update())
OrbitPositions == {Vec(0, 10 * Scale, 0)}

\* variant: first-person physics not gated on the pointer lock
ActiveBranch_Unlocked == ~overviewMode

\* the conditions of "Update controls based on mode"
OverviewBranch == overviewMode
ActiveBranch == ~overviewMode /\ isLocked

\* if (overviewMode) orbitControls.update()
TickOverview ==
  /\ OverviewBranch
  /\ camera' \in {camera} \cup OrbitPositions
  /\ tk' = Frame0("overview")
  /\ lastOp' = Did("frame")
  /\ UNCHANGED <<yaw, velocity, canJump, isJumping, jumpVelocity, flagVars,
                 collisionObjects, sceneLoaded, modeVars, lockVars>>

\* neither branch: first-person mode without pointer lock
TickIdle ==
  /\ ~OverviewBranch
  /\ ~ActiveBranch
  /\ tk' = Frame0("idle")
  /\ lastOp' = Did("frame")
  /\ UNCHANGED <<bodyVars, yaw, flagVars, collisionObjects, sceneLoaded,
                 modeVars, lockVars>>

\* "Apply gravity and jumping"
Integrate(body, dt) ==
  IF body.isJumping
  THEN [body EXCEPT !.camera[2] = @ + Div(body.jumpVelocity * dt, Sec),
                    !.jumpVelocity = @ - Div(gravity * dt, Sec)]
  ELSE body

\* variant: landing without waiting for the vertical velocity to turn
Land_Rising(body, groundCheck) ==
  IF body.isJumping /\ groundCheck.onGround
  THEN [body EXCEPT !.isJumping = FALSE, !.jumpVelocity = 0,
                    !.camera[2] = groundCheck.groundY + playerHeight,
                    !.canJump = TRUE]
  ELSE body

\* "If we hit the ground while jumping"
Land(body, groundCheck) ==
  IF body.isJumping /\ groundCheck.onGround /\ body.jumpVelocity <= 0
  THEN [body EXCEPT !.isJumping = FALSE, !.jumpVelocity = 0,
                    !.camera[2] = groundCheck.groundY + playerHeight,
                    !.canJump = TRUE]
  ELSE body

\* variant: falling starts with canJump left as it was
StartFalling_KeepsJump(body, groundCheck) ==
  IF ~body.isJumping /\ ~groundCheck.onGround
  THEN [body EXCEPT !.isJumping = TRUE, !.jumpVelocity = 0]
  ELSE body

\* variant: an unsupported body is left where it is
StartFalling_Never(body, groundCheck) == body

\* "If we're not jumping but not on ground, start falling"
StartFalling(body, groundCheck) ==
  IF ~body.isJumping /\ ~groundCheck.onGround
  THEN [body EXCEPT !.isJumping = TRUE, !.jumpVelocity = 0, !.canJump = FALSE]
  ELSE body

\* variant: the clamp restoring the height only
EnforceMinimumHeight_HeightOnly(body) ==
  IF body.camera[2] < playerHeight
  THEN [body EXCEPT !.camera[2] = playerHeight]
  ELSE body

\* "Enforce minimum height (emergency floor collision)"
EnforceMinimumHeight(body) ==
  IF body.camera[2] < playerHeight
  THEN [body EXCEPT !.camera[2] = playerHeight, !.isJumping = FALSE,
                    !.jumpVelocity = 0, !.canJump = TRUE]
  ELSE body

\* "First-person movement code": damping, then the input impulse
Accelerate(body, dt) ==
  LET vx == body.velocity.x - Div(body.velocity.x * Damping * dt, Sec)
      vz == body.velocity.z - Div(body.velocity.z * Damping * dt, Sec)
  IN  [body EXCEPT
         !.velocity.z = IF moveForward \/ moveBackward
                        THEN vz - Div(Direction.z * Acceleration * dt, Sec) ELSE vz,
         !.velocity.x = IF moveLeft \/ moveRight
                        THEN vx - Div(Direction.x * Acceleration * dt, Sec) ELSE vx]

\* controls.moveRight(-velocity.x * delta); controls.moveForward(-velocity.z * delta)
MovePlayer(body, q, dt) ==
  LET right == -Div(body.velocity.x * dt, Sec)
      forward == -Div(body.velocity.z * dt, Sec)
  IN  [body EXCEPT !.camera = VAdd(VAdd(@, VScale(RightVector(q), right)),
                                   VScale(ForwardVector(q), forward))]

\* "If colliding, move the player back along the collision normal"; the
\* correction is computed in place, so the test on collision.normal reads it
Correct(body, collision) ==
  LET correction == VScale(collision.normal, collision.distance + Epsilon)
  IN  IF collision.colliding
      THEN [body EXCEPT
              !.camera = VAdd(@, correction),
              !.velocity.x = IF correction[1] # 0 THEN 0 ELSE @,
              !.velocity.z = IF correction[3] # 0 THEN 0 ELSE @]
      ELSE body

\* else if (controls.isLocked) { ... }: each step's result is bound once, in
\* the order the code computes it
TickActive(dt) ==
  /\ ~OverviewBranch
  /\ ActiveBranch
  /\ \E b1 \in {Integrate(BodyState, dt)} :
     \E groundCheck \in {checkGround(b1.camera)} :
     \E landed \in {Land(b1, groundCheck)} :
     \E fallen \in {StartFalling(landed, groundCheck)} :
     \E b2 \in {EnforceMinimumHeight(fallen)} :
     \E b3 \in {MovePlayer(Accelerate(b2, dt), yaw, dt)} :
     \E collision \in {checkCollisions(b3.camera, playerRadius)} :
     \E b4 \in {Correct(b3, collision)} :
       /\ camera' = b4.camera
       /\ velocity' = b4.velocity
       /\ jumpVelocity' = b4.jumpVelocity
       /\ isJumping' = b4.isJumping
       /\ canJump' = b4.canJump
       /\ tk' = [branch |-> "active",
                 groundCalled |-> TRUE, ground |-> groundCheck,
                 probe |-> b1.camera, groundSaw |-> collisionObjects,
                 collisionCalled |-> TRUE, collision |-> collision,
                 query |-> b3.camera, collisionSaw |-> collisionObjects,
                 dt |-> dt, pre |-> BodyState,
                 integrated |-> b1, landed |-> landed, fallen |-> fallen,
                 clamped |-> b2]
  /\ lastOp' = Did("frame")
  /\ UNCHANGED <<yaw, flagVars, collisionObjects, sceneLoaded, modeVars, lockVars>>

-----------------------------------------------------------------------------
(* loadMPs (mp-loader.js) and its caller.  The promise chain is followed    *)
(* step by step: the call, the primary fetch, the fallback fetch, the body  *)
(* parsed as JSON, the meshes built, the caller's callbacks.                *)

\* the paths fetched: new URL('data/mps.json', baseUrl).pathname and the
\* fallback '/data/mps.json'
DataPath == "BASE_URL/data/mps.json"
FallbackPath == "/data/mps.json"

\* what a response's body parses to: an array of entries, a value that is no
\* array, or a syntax error; NoBody before any body was read
Body(kind, items) == [kind |-> kind, items |-> items]
NoBody == Body("none", <<>>)

\* let mpMeshes = []; nothing called yet
LoaderIdle ==
  [pc |-> "idle", fetches |-> <<>>, primary |-> "none", fallback |-> "none",
   body |-> NoBody, settled |-> "pending", value |-> <<>>,
   caller |-> "none", cause |-> "none", mpMeshes |-> <<>>]

\* .catch(error => { ...; return []; })
CaughtEmpty(l) == [l EXCEPT !.pc = "settled", !.settled = "resolved", !.value = <<>>]

\* createMPMeshes(mpData): mpData.map(mp => ({data: mp, mesh: group})), which
\* throws when mpData is no array or an entry is null (mp.party)
CanBuild(mpData) ==
  /\ mpData.kind = "array"
  /\ \A i \in 1..Len(mpData.items) : mpData.items[i] # "null"
createMPMeshes(mpData) ==
  [i \in 1..Len(mpData.items) |-> [data |-> mpData.items[i], mesh |-> "group"]]

\* loadMPs(): new URL(..., baseUrl) throws a TypeError, before any promise
\* exists, when baseUrl is not an absolute URL (Vite's default base is '/');
\* otherwise fetch(dataPath)
CallLoadMPs(baseIsAbsolute) ==
  /\ loader.pc = "idle"
  /\ loader' = IF baseIsAbsolute
               THEN [loader EXCEPT !.pc = "primary", !.fetches = <<DataPath>>]
               ELSE [loader EXCEPT !.pc = "end", !.settled = "threw"]

\* the primary fetch settles: a response that is ok or not, or a rejection
PrimarySettles(outcome) ==
  /\ loader.pc = "primary"
  /\ loader' =
       CASE outcome = "ok" -> [loader EXCEPT !.pc = "json", !.primary = outcome]
         [] outcome = "notOk" ->
              [loader EXCEPT !.pc = "fallback", !.primary = outcome,
                             !.fetches = Append(@, FallbackPath)]
         [] outcome = "rejected" -> CaughtEmpty([loader EXCEPT !.primary = outcome])

\* the fallback fetch settles
FallbackSettles(outcome) ==
  /\ loader.pc = "fallback"
  /\ loader' =
       IF outcome = "ok"
       THEN [loader EXCEPT !.pc = "json", !.fallback = outcome]
       ELSE CaughtEmpty([loader EXCEPT !.fallback = outcome])

\* response.json() settles: the parsed body, or a rejection on a syntax error
JsonSettles(parsed) ==
  /\ loader.pc = "json"
  /\ loader' =
       IF parsed.kind = "syntaxError"
       THEN CaughtEmpty([loader EXCEPT !.body = parsed])
       ELSE [loader EXCEPT !.pc = "build", !.body = parsed]

\* .then(mpData => { createMPMeshes; updateMPPositions; return mps; })
BuildMeshes ==
  /\ loader.pc = "build"
  /\ loader' =
       IF CanBuild(loader.body)
       THEN [loader EXCEPT !.pc = "settled", !.settled = "resolved",
                           !.value = createMPMeshes(loader.body)]
       ELSE CaughtEmpty(loader)

\* loadMPs().then(mps => { mpMeshes = mps; ... }).catch(...): the callback runs
\* to its end, or throws in the minimap set-up and the caller's .catch logs it
CallerThen(callbackThrows) ==
  /\ loader.pc = "settled" /\ loader.settled = "resolved"
  /\ loader' = IF callbackThrows
               THEN [loader EXCEPT !.pc = "end", !.mpMeshes = loader.value,
                                   !.caller = "catch", !.cause = "callback"]
               ELSE [loader EXCEPT !.pc = "end", !.mpMeshes = loader.value,
                                   !.caller = "then"]

\* the bodies a response may carry: arrays of MP records of up to MaxMPs
\* entries, an entry being a party's member or null; or no array at all
MaxMPs == 3
Entries == {"Labour", "Conservative", "null"}
Bodies ==
  {Body("array", items) : items \in UNION {[1..n -> Entries] : n \in 0..MaxMPs}}
    \cup {Body("notArray", <<>>), Body("syntaxError", <<>>)}

FetchOutcomes == {"ok", "notOk", "rejected"}

-----------------------------------------------------------------------------
(* The application: construction, then any interleaving of input events,    *)
(* the scene's load and frames.                                             *)

\* tick sizes, in ms
Deltas == {16, 33}

\* a tier platform as createTieredSide builds it (2.5 x 0.2 x 26, top at 0.85),
\* under the spawn position
TierPlatform == Solid(Vec(0, (75 * Scale) \div 100, 0),
                      Vec((125 * Scale) \div 100, Scale \div 10, 13 * Scale))

\* a seat collision box as createTieredSide builds it (1.5 x 1.2 x w, centred
\* 1.85 high), its expanded face 0.02 to the right of the spawn position and
\* its centre 0.3 behind it
SeatBox == Solid(Vec((107 * Scale) \div 100, (185 * Scale) \div 100,
                     (103 * Scale) \div 10),
                 Vec((75 * Scale) \div 100, (6 * Scale) \div 10, Scale \div 2))

\* the floor mesh: a 40 x 40 plane at y = 0
FloorMesh == Solid(Vec(0, 0, 0), Vec(20 * Scale, 0, 20 * Scale))

\* a mesh that is not collidable
Carpet == Decoration(Vec(0, Scale \div 100, 0), Vec(2 * Scale, 0, 13 * Scale))

\* the lists createHouseOfCommons may resolve with
Scenes == {<<>>, <<FloorMesh, Carpet, SeatBox>>, <<FloorMesh, TierPlatform>>}

Init ==
  /\ camera = SpawnPosition
  /\ yaw = 0
  /\ velocity = [x |-> 0, z |-> 0]
  /\ moveForward = FALSE /\ moveBackward = FALSE
  /\ moveLeft = FALSE /\ moveRight = FALSE
  /\ canJump = TRUE /\ isJumping = FALSE /\ jumpVelocity = 0
  /\ collisionObjects = <<>>
  /\ sceneLoaded = FALSE
  /\ overviewMode = FALSE /\ orbitEnabled = FALSE
  /\ orbitTarget = Vec(0, 0, 0)
  /\ isLocked = FALSE /\ lockPending = "none"
  /\ delta = 0
  /\ lastOp = [op |-> "init", again |-> FALSE]
  /\ tk = Untouched("none",
                    [camera |-> SpawnPosition, velocity |-> [x |-> 0, z |-> 0],
                     jumpVelocity |-> 0, isJumping |-> FALSE, canJump |-> TRUE])
  /\ nTicks = 0 /\ nEvents = 0
  /\ loader = LoaderIdle

MaxTicks == 3
MaxEvents == 4

Event(A) ==
  nEvents < MaxEvents /\ A /\ nEvents' = nEvents + 1 /\ UNCHANGED <<nTicks, delta, loader>>
Frame(A) ==
  nTicks < MaxTicks /\ A /\ nTicks' = nTicks + 1 /\ UNCHANGED <<nEvents, delta, loader>>

Next ==
  \/ \E code \in Keys : Event(KeyDown(code))
  \/ \E code \in Keys \ {"Space"} : Event(KeyUp(code))
  \/ Event(DocumentClick)
  \/ Event(ToggleClick)
  \/ \E v \in 1..Len(viewpoints) : Event(ViewpointClick(v))
  \/ Event(PointerLockChange)
  \/ Event(EscapeUnlock)
  \/ \E q \in Yaws : Event(MouseLook(q))
  \/ \E objects \in Scenes : Event(SceneLoaded(objects))
  \/ Frame(TickOverview)
  \/ Frame(TickIdle)
  \/ \E dt \in Deltas : Frame(TickActive(dt))

Spec == Init /\ [][Next]_vars

-----------------------------------------------------------------------------
(* Properties checked on the application (Spec) *)

ActiveFrameDone == lastOp.op = "frame" /\ tk.branch = "active"

\* C1: after every active first-person frame, the collision
\* correction included, camera.position.y >= playerHeight.
FloorInvariant == ActiveFrameDone => camera[2] >= playerHeight

BodyJumpVars == <<jumpVelocity, isJumping, canJump>>

\* C5: a Space keydown with canJump sets jumpVelocity = sqrt(2*gravity*jumpHeight),
\* isJumping = true, canJump = false; with canJump false it changes none of
\* the three, and so does every other handler; canJump becomes true again
\* only in an active frame (landing or floor clamp).
JumpGate ==
  [][/\ KeyDown("Space") =>
          IF canJump
          THEN jumpVelocity' = JumpSpeed /\ isJumping' /\ ~canJump'
          ELSE UNCHANGED BodyJumpVars
     /\ (nEvents' # nEvents /\ ~canJump) => UNCHANGED BodyJumpVars
     /\ (nEvents' # nEvents /\ BodyJumpVars' # BodyJumpVars)
          => jumpVelocity' = JumpSpeed /\ isJumping' /\ ~canJump'
     /\ (canJump' /\ ~canJump) => (lastOp'.op = "frame" /\ tk'.branch = "active")
    ]_vars

\* C5 witness: a jump has just been triggered and not yet integrated
JumpTriggered ==
  /\ lastOp.op = "event"
  /\ isJumping /\ ~canJump /\ jumpVelocity = JumpSpeed

observableMode == <<overviewMode, orbitEnabled, orbitTarget, isLocked, lockPending,
                    camera, yaw>>

InactiveFrameLeavesBody ==
  [][(nTicks' # nTicks /\ (overviewMode \/ ~isLocked)) =>
       /\ UNCHANGED <<velocity, jumpVelocity, isJumping, canJump>>
       /\ ~tk'.groundCalled /\ ~tk'.collisionCalled
       /\ (~overviewMode => camera' = camera)
    ]_vars

\* C10 witness: an idle frame has passed over an armed jump and a held key
IdleFrameOverArmedJump ==
  /\ lastOp.op = "frame" /\ tk.branch = "idle"
  /\ isJumping /\ jumpVelocity = JumpSpeed /\ moveForward

-----------------------------------------------------------------------------
(* Scenarios.  Each starts from a state the application reaches: the scene  *)
(* loaded, first-person mode, pointer lock held, the body at rest at the    *)
(* given place; then frames of a fixed or free tick size follow.            *)

Playing(position, q, objects, dt, forwardHeld, rightHeld) ==
  /\ camera = position
  /\ yaw = q
  /\ velocity = [x |-> 0, z |-> 0]
  /\ moveForward = forwardHeld /\ moveBackward = FALSE
  /\ moveLeft = FALSE /\ moveRight = rightHeld
  /\ canJump = TRUE /\ isJumping = FALSE /\ jumpVelocity = 0
  /\ collisionObjects = objects
  /\ sceneLoaded = TRUE
  /\ overviewMode = FALSE /\ orbitEnabled = FALSE
  /\ orbitTarget = Vec(0, 0, 0)
  /\ isLocked = TRUE /\ lockPending = "none"
  /\ delta = dt
  /\ lastOp = [op |-> "init", again |-> FALSE]
  /\ tk = Untouched("none",
                    [camera |-> position, velocity |-> [x |-> 0, z |-> 0],
                     jumpVelocity |-> 0, isJumping |-> FALSE, canJump |-> TRUE])
  /\ nTicks = 0 /\ nEvents = 0
  /\ loader = LoaderIdle

(* Free fall: the body released at y = 10 over an empty scene (the height   *)
(* an orbit drag leaves the camera at), frames of any size in Deltas.       *)

InitFall == Playing(Vec(0, 10 * Scale, 0), 0, <<>>, 0, FALSE, FALSE)

FallFrame == \E dt \in Deltas : TickActive(dt) /\ UNCHANGED <<delta, loader, nTicks, nEvents>>

SpecFall == InitFall /\ [][FallFrame]_vars /\ WF_vars(FallFrame)

(* Jumping: the body at rest at the spawn position, over an empty scene or  *)
(* over a tier platform, frames of one fixed size, Space at any time.       *)

JumpDeltas == {5, 10, 16, 20, 33}

InitJump ==
  \E dt \in JumpDeltas, objects \in {<<>>, <<FloorMesh, TierPlatform>>} :
    Playing(SpawnPosition, 0, objects, dt, FALSE, FALSE)

JumpFrame == TickActive(delta) /\ UNCHANGED <<delta, loader, nTicks, nEvents>>
JumpKey == KeyDown("Space") /\ UNCHANGED <<delta, loader, nTicks, nEvents>>

NextJump == JumpFrame \/ JumpKey

SpecJump == InitJump /\ [][NextJump]_vars

\* the same with frames going on for ever (requestAnimationFrame)
SpecPerch == InitJump /\ [][NextJump]_vars /\ WF_vars(JumpFrame)

(* Walking into a wall: one box centred at (5, 0.5, 0) with half-extents    *)
(* (1, 1, 1); the body starts at rest 2 units from the centre and walks     *)
(* along one axis towards it with the matching key held, on the box's       *)
(* centre line or half a unit beside it.                                    *)

WallBox == Solid(Vec(5 * Scale, Scale \div 2, 0), Vec(Scale, Scale, Scale))

WallDeltas == {10, 16, 20, 33}

\* start positions: from x = 3 moving +x (key D), from z = 2 moving -z (key W)
InitWall ==
  \E dt \in WallDeltas, side \in {0, Scale \div 2} :
    \/ Playing(Vec(3 * Scale, playerHeight, side), 0, <<WallBox>>, dt, FALSE, TRUE)
    \/ Playing(Vec(5 * Scale + side, playerHeight, 2 * Scale), 0, <<WallBox>>,
               dt, TRUE, FALSE)

MaxWallTicks == 60

WallFrame ==
  /\ nTicks < MaxWallTicks
  /\ TickActive(delta)
  /\ nTicks' = nTicks + 1
  /\ UNCHANGED <<delta, loader, nEvents>>

SpecWall == InitWall /\ [][WallFrame]_vars

(* Queries: checkCollisions and checkGround asked at a position of a grid,  *)
(* against a list of solids.                                                *)

\* the back wall createWalls builds: 30 x 10 x 0.5 at (0, 5, -15)
BackWall == Solid(Vec(0, 5 * Scale, -15 * Scale),
                  Vec(15 * Scale, 5 * Scale, Scale \div 4))

\* the seat collision box next to SeatBox in its row (seatWidth further on z)
NextSeatBox == Solid(Vec((107 * Scale) \div 100, (185 * Scale) \div 100,
                         (113 * Scale) \div 10),
                     Vec((75 * Scale) \div 100, (6 * Scale) \div 10, Scale \div 2))

QueryScenes == {<<>>, <<FloorMesh, BackWall>>, <<BackWall, WallBox>>,
                <<FloorMesh, WallBox, SeatBox, TierPlatform>>,
                <<FloorMesh, SeatBox, NextSeatBox>>}

QueryGrid ==
  {Vec(x, y, z) : x \in {-10 * Scale, 0, 4 * Scale, 10 * Scale},
                  y \in {(9 * Scale) \div 10, playerHeight, 3 * Scale},
                  z \in {-15 * Scale, (-145 * Scale) \div 10, 0, 10 * Scale}}

\* positions inside WallBox's expanded box at equal distances from its centre
\* on two or on three axes
TiePositions ==
  {Vec((45 * Scale) \div 10, Scale, Scale), Vec(4 * Scale, Scale, Scale \div 2),
   Vec((45 * Scale) \div 10, Scale, Scale \div 2)}

\* positions inside the expanded boxes of both SeatBox and NextSeatBox: nearer
\* the second, nearer the first, and midway between them
ContactPositions ==
  {Vec((207 * Scale) \div 100, (265 * Scale) \div 100, (107 * Scale) \div 10),
   Vec((207 * Scale) \div 100, (265 * Scale) \div 100, (109 * Scale) \div 10),
   Vec((107 * Scale) \div 100, (185 * Scale) \div 100, (108 * Scale) \div 10)}

QueryPositions == QueryGrid \cup TiePositions \cup ContactPositions

InitQuery ==
  \E position \in QueryPositions, objects \in QueryScenes :
    Playing(position, 0, objects, 0, FALSE, FALSE)

QueryCollisions ==
  /\ ~tk.collisionCalled
  /\ tk' = [tk EXCEPT !.branch = "query", !.collisionCalled = TRUE,
                      !.collision = checkCollisions(camera, playerRadius),
                      !.query = camera, !.collisionSaw = collisionObjects]
  /\ UNCHANGED <<camera, yaw, velocity, flagVars, canJump, isJumping, jumpVelocity,
                 collisionObjects, sceneLoaded, modeVars, lockVars, delta, loader, lastOp,
                 nTicks, nEvents>>

QueryGround ==
  /\ ~tk.groundCalled
  /\ tk' = [tk EXCEPT !.branch = "query", !.groundCalled = TRUE,
                      !.ground = checkGround(camera),
                      !.probe = camera, !.groundSaw = collisionObjects]
  /\ UNCHANGED <<camera, yaw, velocity, flagVars, canJump, isJumping, jumpVelocity,
                 collisionObjects, sceneLoaded, modeVars, lockVars, delta, loader, lastOp,
                 nTicks, nEvents>>

\* one frame of animate taken from the queried position
QueryFrame ==
  /\ tk.branch # "active"
  /\ TickActive(33)
  /\ UNCHANGED <<delta, loader, nTicks, nEvents>>

NextQuery == QueryCollisions \/ QueryGround \/ QueryFrame

SpecQuery == InitQuery /\ [][NextQuery]_vars

(* Roaming around a seat: the body starts at rest beside the seat's          *)
(* collision box, at the spawn position or behind the box's far corner,     *)
(* facing any way, with W and D held or not; frames of one fixed size       *)
(* follow, and either key may be released and Space pressed at any time.    *)

RoamStarts == {SpawnPosition,
               Vec((138 * Scale) \div 100, playerHeight, (112 * Scale) \div 10)}

InitRoam ==
  \E position \in RoamStarts, q \in Yaws, forwardHeld \in BOOLEAN,
     rightHeld \in BOOLEAN :
    Playing(position, q, <<FloorMesh, SeatBox>>, 33, forwardHeld, rightHeld)

MaxRoamTicks == 7
MaxRoamEvents == 3

RoamFrame ==
  /\ nTicks < MaxRoamTicks
  /\ TickActive(delta)
  /\ nTicks' = nTicks + 1
  /\ UNCHANGED <<delta, loader, nEvents>>

RoamKeyUp ==
  /\ nEvents < MaxRoamEvents
  /\ \E code \in {"KeyW", "KeyD"} : KeyUp(code)
  /\ nEvents' = nEvents + 1
  /\ UNCHANGED <<delta, loader, nTicks>>

RoamJump ==
  /\ nEvents < MaxRoamEvents
  /\ KeyDown("Space")
  /\ nEvents' = nEvents + 1
  /\ UNCHANGED <<delta, loader, nTicks>>

NextRoam == RoamFrame \/ RoamKeyUp \/ RoamJump

SpecRoam == InitRoam /\ [][NextRoam]_vars

-----------------------------------------------------------------------------
(* Properties checked on the scenarios *)

InExpandedBox(object, p) == ContainsPoint(ExpandedBox(object, playerRadius), p)

\* C2: whenever checkCollisions reports a collision with the
\* box, the position at the end of that frame is outside the box expanded
\* by playerRadius.
NoResidualContainment ==
  (ActiveFrameDone /\ tk.collision.colliding /\ tk.collision.object # 0)
    => ~InExpandedBox(collisionObjects[tk.collision.object], camera)

\* C3: walking +x from (3, 1.6, 0), in the first frame whose
\* moved position is inside the expanded box the body ends at
\* x = 3.7 - 0.01 with velocity.x = 0.
WallPushBack ==
  (/\ ActiveFrameDone
   /\ moveRight /\ tk.pre.camera[3] = 0
   /\ InExpandedBox(WallBox, tk.query)
   /\ ~InExpandedBox(WallBox, tk.pre.camera))
    => /\ camera[1] = WallBox.pos[1] - WallBox.half[1] - playerRadius - Epsilon
       /\ velocity.x = 0

Landed ==
  /\ camera[2] = playerHeight
  /\ ~isJumping /\ jumpVelocity = 0 /\ canJump

\* C4: released at y = 10 over an empty scene, with active frames going on
\* for ever, the body eventually is at y = playerHeight with isJumping false,
\* jumpVelocity 0 and canJump true, and stays so in every later frame.
FreeFallTerminates == <>[]Landed

\* C4 witness: the frame in which the fall ends
FallJustEnded ==
  /\ ActiveFrameDone /\ Landed
  /\ tk.pre.isJumping /\ tk.pre.jumpVelocity < 0
  /\ collisionObjects = <<>>

\* the heights a body at p may have landed on: the world floor and the tops
\* of the solids under it
GroundHeights(p) ==
  {0} \cup {TopOf(collisionObjects[i]) : i \in RayHits(collisionObjects, p)}

\* C6: an active frame that starts landed (not jumping, canJump,
\* y = ground height + playerHeight), with no key held, no horizontal
\* velocity and no collision, leaves camera, jumpVelocity, isJumping and
\* canJump as they were.
LandedBodyStaysPut ==
  (/\ ActiveFrameDone
   /\ ~tk.pre.isJumping /\ tk.pre.canJump
   /\ tk.pre.camera[2] - playerHeight \in GroundHeights(tk.pre.camera)
   /\ tk.pre.velocity = [x |-> 0, z |-> 0]
   /\ ~moveForward /\ ~moveBackward /\ ~moveLeft /\ ~moveRight
   /\ ~tk.collision.colliding)
    => BodyState = tk.pre

\* tolerance on the jump's peak: 0.05 units
PeakTolerance == Scale \div 20

\* C7: over an empty scene, jumping from y = playerHeight, the
\* height above playerHeight in the frame where jumpVelocity first is <= 0
\* (the highest point of the jump) is jumpHeight within PeakTolerance.
JumpPeakIsJumpHeight ==
  (/\ ActiveFrameDone
   /\ collisionObjects = <<>>
   /\ tk.pre.isJumping /\ tk.pre.jumpVelocity > 0
   /\ jumpVelocity <= 0)
    => Abs(camera[2] - playerHeight - jumpHeight) <= PeakTolerance

\* the centre of a solid is more than 5 units from p
CentreBeyondCutoff(object, p) ==
  LET d == Vec(Abs(object.pos[1] - p[1]), Abs(object.pos[2] - p[2]),
               Abs(object.pos[3] - p[3]))
  IN  \/ \E i \in 1..3 : d[i] > 5 * Scale
      \/ d[1] * d[1] + d[2] * d[2] + d[3] * d[3] > 25 * Scale * Scale

NearSolid(object) == ~CentreBeyondCutoff(object, tk.query)

Verdict(result) ==
  [colliding |-> result.colliding, normal |-> result.normal,
   distance |-> result.distance]

\* C8: the solid checkCollisions returns never has its centre more than 5
\* units from the query position, and colliding, normal and distance are
\* what the solids within 5 units alone give.
BroadPhaseCutoff ==
  (tk.branch = "query" /\ tk.collisionCalled) =>
    /\ tk.collision.object # 0
         => ~CentreBeyondCutoff(collisionObjects[tk.collision.object], tk.query)
    /\ Verdict(tk.collision) =
         Verdict(CheckCollisionsIn(SelectSeq(collisionObjects, NearSolid),
                                   tk.query, playerRadius))

\* C8 witness: the query position is inside the expanded box of a solid
\* centred more than 5 units away, and no collision is reported
FarSolidIgnored ==
  /\ tk.branch = "query" /\ tk.collisionCalled
  /\ ~tk.collision.colliding
  /\ \E i \in 1..Len(collisionObjects) :
       /\ CentreBeyondCutoff(collisionObjects[i], tk.query)
       /\ InExpandedBox(collisionObjects[i], tk.query)

-----------------------------------------------------------------------------
(* Properties of the queries and of the steps of a frame *)

AboveFloorBoundary(p) == p[2] - playerHeight \div 2 > floorCollisionBox.max[2]

\* C11: with collisionObjects empty, checkCollisions at a position above the
\* floor boundary reports no collision and the frame leaves the moved
\* position uncorrected; checkGround reports supported exactly when
\* position.y <= playerHeight, with ground height 0; and an active frame can
\* always be taken (no step of it is undefined).
EmptyListTolerated ==
  /\ (tk.collisionCalled /\ tk.collisionSaw = <<>> /\ AboveFloorBoundary(tk.query))
       => /\ ~tk.collision.colliding
          /\ ActiveFrameDone => camera = tk.query
  /\ (tk.groundCalled /\ tk.groundSaw = <<>>)
       => tk.ground = [onGround |-> tk.probe[2] <= playerHeight, groundY |-> 0]
  /\ (collisionObjects = <<>> /\ ActiveBranch)
       => \A dt \in Deltas : ENABLED TickActive(dt)

\* C11 witness: a frame of a jump in flight before the scene has loaded
JumpFrameBeforeLoad ==
  /\ ActiveFrameDone /\ ~sceneLoaded
  /\ tk.groundSaw = <<>> /\ tk.collisionSaw = <<>>
  /\ ~tk.ground.onGround /\ ~tk.collision.colliding
  /\ tk.probe[2] > playerHeight

\* the complete lists a load may install
CompleteLists == {SelectSeq(objects, LAMBDA o : o.collidable) : objects \in Scenes}

\* C12: collisionObjects changes only from the empty initial list to a
\* complete loaded list, in one step; and in every active frame the ground
\* check and the collision check read the same list, which is the empty list
\* or a complete loaded list.
SnapshotReplacement ==
  [][/\ collisionObjects' # collisionObjects
          => collisionObjects = <<>> /\ collisionObjects' \in CompleteLists
     /\ (nTicks' # nTicks /\ tk'.branch = "active")
          => /\ tk'.groundSaw = tk'.collisionSaw
             /\ tk'.groundSaw \in {<<>>} \cup CompleteLists
    ]_vars

\* C12 witness: a frame after the load, whose collision check met the second
\* solid of the loaded list
FrameOverLoadedList ==
  /\ ActiveFrameDone /\ sceneLoaded
  /\ Len(tk.groundSaw) = 2 /\ tk.collisionSaw = tk.groundSaw
  /\ tk.collision.object = 2

\* the expanded box of a solid, seen from its centre: offset of p, half-extent
\* and distance from p to the nearest face, on axis a
Offset(object, p, a) == p[a] - object.pos[a]
HalfExtent(object, a) == object.half[a] + playerRadius
Gap(object, p, a) == HalfExtent(object, a) - Abs(Offset(object, p, a))

\* the last collision check met a solid
SolidMet == tk.collisionCalled /\ tk.collision.colliding /\ tk.collision.object # 0
MetSolid == tk.collisionSaw[tk.collision.object]

\* C13: when a frame's collision check meets a solid with a normal along
\* axis a, the reported distance is the distance from the moved position to
\* the nearest face of the expanded box on that axis, and the corrected
\* position lies 0.01 outside that face.
PenetrationIsGap ==
  (ActiveFrameDone /\ SolidMet) =>
    \A a \in 1..3 :
      tk.collision.normal[a] # 0 =>
        /\ tk.collision.distance = Gap(MetSolid, tk.query, a)
        /\ Abs(Offset(MetSolid, camera, a)) = HalfExtent(MetSolid, a) + Epsilon

\* C14: when a frame's collision check meets a solid with a normal along
\* axis a, no other axis has its nearest face closer to the moved position,
\* in absolute distance or as a fraction of the half-extent.
LeastPenetratedAxis ==
  (ActiveFrameDone /\ SolidMet) =>
    \A a \in 1..3 :
      tk.collision.normal[a] # 0 =>
        \/ \A b \in 1..3 : Gap(MetSolid, tk.query, a) <= Gap(MetSolid, tk.query, b)
        \/ \A b \in 1..3 :
             Gap(MetSolid, tk.query, a) * HalfExtent(MetSolid, b)
               <= Gap(MetSolid, tk.query, b) * HalfExtent(MetSolid, a)

\* |offset_a / extent_a| <= |offset_b / extent_b|, and strictly
RatioLE(object, p, a, b) ==
  Abs(Offset(object, p, a)) * HalfExtent(object, b)
    <= Abs(Offset(object, p, b)) * HalfExtent(object, a)
RatioLT(object, p, a, b) == ~RatioLE(object, p, b, a)

\* C15: the normal reported for a solid is along the first axis, in the
\* order x, y, z, whose ratio |offset/extent| is the smallest; its component
\* on that axis is the sign of the offset and the two others are zero.
AxisSelectionRule ==
  SolidMet =>
    \E a \in 1..3 :
      /\ \A b \in 1..3 : RatioLE(MetSolid, tk.query, a, b)
      /\ \A b \in 1..(a - 1) : RatioLT(MetSolid, tk.query, a, b)
      /\ tk.collision.normal =
           [i \in 1..3 |-> IF i = a THEN Sign(Offset(MetSolid, tk.query, a)) ELSE 0]

\* C15 witness: a query at equal ratios on all three axes, answered along x
AxisTieResolved ==
  /\ tk.branch = "query" /\ SolidMet
  /\ \A a, b \in 1..3 : RatioLE(MetSolid, tk.query, a, b)
  /\ tk.collision.normal = Vec(-1, 0, 0)

\* C16: at the end of a frame that applied a collision correction, the
\* velocity component along the normal's axis is zero: velocity.x for an x
\* normal, velocity.z for a z normal, jumpVelocity for a y normal.
VelocityZeroedAfterCorrection ==
  (ActiveFrameDone /\ tk.collision.colliding) =>
    /\ tk.collision.normal[1] # 0 => velocity.x = 0
    /\ tk.collision.normal[3] # 0 => velocity.z = 0
    /\ tk.collision.normal[2] # 0 => jumpVelocity = 0

NoKeyHeld == ~moveForward /\ ~moveBackward /\ ~moveLeft /\ ~moveRight

\* C17: in an active frame taken with no movement key held, after a frame
\* whose collision normal was along world x (or z), the displacement made by
\* controls.moveRight/moveForward has no component against that normal.
NoRepeatedPenetration ==
  [][(/\ nTicks' # nTicks /\ tk'.branch = "active"
      /\ tk.branch = "active" /\ tk.collision.colliding
      /\ NoKeyHeld)
       => \A a \in {1, 3} :
            (tk'.query[a] - camera[a]) * tk.collision.normal[a] >= 0
    ]_vars

\* the frame's correction moved the body vertically
CorrectedVertically == tk.collision.colliding /\ tk.collision.normal[2] # 0

\* C18: in an active frame with isJumping after the vertical integration: if
\* the ground check is supported and jumpVelocity <= 0, the landing step sets
\* y = groundY + playerHeight, jumpVelocity = 0, isJumping = false, canJump =
\* true and changes nothing else, and the frame ends with these values (y
\* unless the collision correction is vertical); otherwise the landing step
\* changes nothing and, with y not below playerHeight, the frame ends still
\* jumping with the integrated jumpVelocity.
LandingCondition ==
  (ActiveFrameDone /\ tk.integrated.isJumping) =>
    IF tk.ground.onGround /\ tk.integrated.jumpVelocity <= 0
    THEN /\ tk.landed = [tk.integrated EXCEPT
                           !.camera[2] = tk.ground.groundY + playerHeight,
                           !.jumpVelocity = 0, !.isJumping = FALSE,
                           !.canJump = TRUE]
         /\ ~isJumping /\ jumpVelocity = 0 /\ canJump
         /\ ~CorrectedVertically => camera[2] = tk.ground.groundY + playerHeight
    ELSE /\ tk.landed = tk.integrated
         /\ tk.integrated.camera[2] >= playerHeight
              => /\ isJumping /\ jumpVelocity = tk.integrated.jumpVelocity
                 /\ canJump = tk.pre.canJump

\* C18 witness: a jump has just landed on the tier platform
LandedOnPlatform ==
  /\ ActiveFrameDone /\ tk.integrated.isJumping
  /\ tk.ground.onGround /\ tk.ground.groundY = TopOf(TierPlatform)
  /\ ~isJumping /\ canJump
  /\ camera[2] = TopOf(TierPlatform) + playerHeight

\* C19: in an active frame with the body not jumping and the ground check
\* unsupported, the falling step sets isJumping = true, jumpVelocity = 0,
\* canJump = false and changes nothing else (position.y stays as the frame
\* found it); unless the floor clamp applies, the frame ends with these
\* values.
FallingWithoutJump ==
  (ActiveFrameDone /\ ~tk.landed.isJumping /\ ~tk.ground.onGround) =>
    /\ tk.fallen = [tk.landed EXCEPT !.isJumping = TRUE, !.jumpVelocity = 0,
                                      !.canJump = FALSE]
    /\ tk.fallen.camera = tk.pre.camera
    /\ tk.fallen.camera[2] >= playerHeight
         => /\ isJumping /\ jumpVelocity = 0 /\ ~canJump
            /\ ~CorrectedVertically => camera[2] = tk.pre.camera[2]

\* C19 witness: a body standing on the platform's landing height has started
\* to fall
FallStartedFromRest ==
  /\ ActiveFrameDone
  /\ ~tk.pre.isJumping /\ tk.pre.canJump /\ ~tk.ground.onGround
  /\ isJumping /\ ~canJump /\ jumpVelocity = 0
  /\ camera[2] > playerHeight

\* C20: in an active frame with y < playerHeight after the integration,
\* landing and falling steps, the clamp sets y = playerHeight, isJumping =
\* false, jumpVelocity = 0, canJump = true and changes nothing else, and the
\* frame ends with these values (y unless the collision correction is
\* vertical), whatever the ground check and the jump state were.
FloorClampOverrides ==
  (ActiveFrameDone /\ tk.fallen.camera[2] < playerHeight) =>
    /\ tk.clamped = [tk.fallen EXCEPT !.camera[2] = playerHeight,
                                       !.isJumping = FALSE, !.jumpVelocity = 0,
                                       !.canJump = TRUE]
    /\ ~isJumping /\ jumpVelocity = 0 /\ canJump
    /\ ~CorrectedVertically => camera[2] = playerHeight

\* C20 witness: the clamp has ended a jump that began below playerHeight
ClampEndedJump ==
  /\ ActiveFrameDone
  /\ tk.fallen.isJumping /\ tk.fallen.jumpVelocity > 0
  /\ tk.fallen.camera[2] < playerHeight
  /\ ~isJumping /\ canJump /\ camera[2] = playerHeight

\* the solids of the list last checked that are within the broad-phase range
\* of the query position and contain it in their expanded boxes
Contacts ==
  {i \in 1..Len(tk.collisionSaw) :
     /\ ~CentreBeyondCutoff(tk.collisionSaw[i], tk.query)
     /\ InExpandedBox(tk.collisionSaw[i], tk.query)}

\* normal and distance of the query position against solid i alone
ContactOf(i) ==
  Penetration(ExpandedBox(tk.collisionSaw[i], playerRadius), tk.query)

\* C21: at a position above the floor boundary, checkCollisions reports a
\* collision exactly when some solid in range contains the position; the
\* solid returned has the smallest distance of them, the first in list order
\* among equals, with its own normal and distance; and a frame moves the
\* body once, by normal * (distance + 0.01).
SingleContact ==
  (tk.collisionCalled /\ AboveFloorBoundary(tk.query)) =>
    /\ tk.collision.colliding <=> Contacts # {}
    /\ tk.collision.colliding =>
         /\ tk.collision.object \in Contacts
         /\ \A j \in Contacts :
              \/ ContactOf(tk.collision.object).distance < ContactOf(j).distance
              \/ /\ ContactOf(tk.collision.object).distance = ContactOf(j).distance
                 /\ tk.collision.object <= j
         /\ tk.collision.normal = ContactOf(tk.collision.object).normal
         /\ tk.collision.distance = ContactOf(tk.collision.object).distance
         /\ ActiveFrameDone =>
              camera = VAdd(tk.query, VScale(tk.collision.normal,
                                             tk.collision.distance + Epsilon))

\* C21 witness: a frame whose moved position is inside two seats' expanded
\* boxes has been corrected against the second, nearer one
CorrectedAgainstNearer ==
  /\ ActiveFrameDone /\ SolidMet
  /\ Cardinality(Contacts) = 2
  /\ tk.collision.object = 3
  /\ \E j \in Contacts : ContactOf(j).distance > tk.collision.distance
  /\ camera # tk.query

\* C22: at a position whose lower extent (y - playerHeight/2) is at or below
\* the floor boundary (0.1), checkCollisions reports a collision with normal
\* (0,1,0), the depth below the boundary as distance and no solid, whatever
\* the list holds; at any other position a reported collision names a solid
\* of the list that contains the position, and none is reported when no
\* solid in range contains it.
FloorPlaneFirst ==
  tk.collisionCalled =>
    IF ~AboveFloorBoundary(tk.query)
    THEN /\ tk.collision.colliding
         /\ tk.collision.normal = Vec(0, 1, 0)
         /\ tk.collision.distance = Scale \div 10 - (tk.query[2] - playerHeight \div 2)
         /\ tk.collision.object = 0
    ELSE /\ tk.collision.colliding => tk.collision.object \in Contacts
         /\ ~tk.collision.colliding => Contacts = {}

\* C22 witness: a query on the floor boundary and inside a solid's expanded
\* box, answered with the floor
FloorAnsweredInsideSolid ==
  /\ tk.branch = "query" /\ tk.collisionCalled
  /\ ~AboveFloorBoundary(tk.query)
  /\ Contacts # {}
  /\ tk.collision.colliding /\ tk.collision.object = 0

\* the solids of the list last probed that lie under the probe position, and
\* the height of the nearest of them
Under == {i \in 1..Len(tk.groundSaw) :
            /\ \A a \in {1, 3} :
                 Abs(tk.probe[a] - tk.groundSaw[i].pos[a]) <= tk.groundSaw[i].half[a]
            /\ tk.groundSaw[i].pos[2] + tk.groundSaw[i].half[2] <= tk.probe[2]}
SurfaceHeight(i) == tk.groundSaw[i].pos[2] + tk.groundSaw[i].half[2]
NearestHeight ==
  CHOOSE h \in {SurfaceHeight(i) : i \in Under} : \A j \in Under : SurfaceHeight(j) <= h

\* C23: checkGround reports supported at the height of the nearest surface
\* under the position when that surface is less than playerHeight/2 + 0.1
\* below it; failing that, supported at height 0 when y <= playerHeight;
\* failing that, unsupported.
GroundClassification ==
  tk.groundCalled =>
    tk.ground =
      IF Under # {} /\ 10 * (tk.probe[2] - NearestHeight) < 5 * playerHeight + Scale
      THEN [onGround |-> TRUE, groundY |-> NearestHeight]
      ELSE IF tk.probe[2] <= playerHeight
      THEN [onGround |-> TRUE, groundY |-> 0]
      ELSE [onGround |-> FALSE, groundY |-> 0]

\* C23 witness: a probe over two surfaces, supported at the nearer one
SupportedByNearer ==
  /\ tk.branch = "query" /\ tk.groundCalled
  /\ Cardinality(Under) = 2
  /\ tk.ground.onGround /\ tk.ground.groundY = TopOf(TierPlatform)

-----------------------------------------------------------------------------
(* Properties of modes, pointer lock and keys, checked on the application *)

ButtonNames == {"viewMode"} \cup {viewpoints[v].name : v \in 1..Len(viewpoints)}

\* C24: orbitControls.enabled equals overviewMode in every state; a button
\* click that ends in Overview enables the orbit controller, leaves an
\* unlock requested when the pointer is locked and requests no lock; a step
\* that ends in first person leaves the orbit controller disabled.
ModeSchemeConsistent ==
  /\ [](orbitEnabled = overviewMode)
  /\ [][/\ (lastOp'.op \in ButtonNames /\ overviewMode')
             => /\ orbitEnabled'
                /\ isLocked => lockPending' = "unlock"
                /\ lockPending' \in {"unlock", lockPending}
        /\ ~overviewMode' => ~orbitEnabled'
       ]_vars

\* C24 witness: Overview has just been entered by the toggle with the pointer
\* still locked
OverviewEnteredLocked ==
  /\ lastOp.op = "viewMode"
  /\ overviewMode /\ orbitEnabled
  /\ isLocked /\ lockPending = "unlock"

\* C25: in every state canJump = ~isJumping, and jumpVelocity = 0 when
\* isJumping is false.
JumpStateInvariant ==
  /\ canJump = ~isJumping
  /\ ~isJumping => jumpVelocity = 0

\* C25 witness: back in first person from Overview, a frame has started the
\* fall from the overview position
FallingFromOverview ==
  /\ ActiveFrameDone
  /\ tk.pre.camera = OverviewPosition /\ ~tk.pre.isJumping
  /\ isJumping /\ ~canJump /\ jumpVelocity = 0

-----------------------------------------------------------------------------
(* Landing on a raised surface *)

\* at rest on the top of a solid above the floor, as the landing snap leaves
\* the body
OnRaised ==
  /\ ~isJumping /\ canJump
  /\ \E i \in RayHits(collisionObjects, camera) :
       /\ TopOf(collisionObjects[i]) > 0
       /\ camera[2] = TopOf(collisionObjects[i]) + playerHeight

-----------------------------------------------------------------------------
(* Jump trigger, pointer lock and movement keys across modes *)

InactiveFrameStep == lastOp'.op = "frame" /\ tk'.branch \in {"overview", "idle"}
ActiveFrameStep == lastOp'.op = "frame" /\ tk'.branch = "active"

\* C27: a Space keydown with canJump arms the jump (isJumping, jumpVelocity =
\* sqrt(2*gravity*jumpHeight), ~canJump) in any mode and lock state; overview
\* and idle frames leave the three jump variables as they are; an active
\* frame that finds isJumping integrates from the camera position it finds:
\* y + jumpVelocity*dt, then jumpVelocity - gravity*dt.
ArmedJumpWaits ==
  [][/\ (KeyDown("Space") /\ canJump)
          => isJumping' /\ jumpVelocity' = JumpSpeed /\ ~canJump'
     /\ InactiveFrameStep => UNCHANGED <<jumpVelocity, isJumping, canJump>>
     /\ (ActiveFrameStep /\ isJumping)
          => /\ tk'.integrated.camera =
                  [camera EXCEPT ![2] = @ + Div(jumpVelocity * tk'.dt, Sec)]
             /\ tk'.integrated.jumpVelocity = jumpVelocity - Div(gravity * tk'.dt, Sec)
    ]_vars

\* C27 witness: a jump armed in Overview has been integrated, back in first
\* person, from the overview position
JumpIntegratedFromOverview ==
  /\ ActiveFrameDone
  /\ tk.pre.isJumping /\ tk.pre.jumpVelocity = JumpSpeed
  /\ tk.pre.camera = OverviewPosition
  /\ camera[2] > OverviewPosition[2]

\* C28: a step requests the pointer lock only when the pointer is not locked
\* and the step ends in first-person mode; from a state in Overview with the
\* pointer unlocked and no request outstanding, isLocked stays false as long
\* as the mode stays Overview; a frame taken in Overview runs the overview
\* branch only, lock held or not.
LockOnlyInFirstPerson ==
  [][/\ (lockPending' = "lock" /\ lockPending # "lock")
          => ~overviewMode' /\ ~isLocked
     /\ (overviewMode /\ overviewMode' /\ ~isLocked /\ lockPending = "none")
          => ~isLocked' /\ lockPending' = "none"
     /\ (lastOp'.op = "frame" /\ overviewMode)
          => /\ tk'.branch = "overview"
             /\ ~tk'.groundCalled /\ ~tk'.collisionCalled
             /\ UNCHANGED <<velocity, jumpVelocity, isJumping, canJump>>
    ]_vars

\* C28 witness: a frame taken in Overview while the lock is still held
OverviewFrameWhileLocked ==
  /\ lastOp.op = "frame" /\ tk.branch = "overview"
  /\ overviewMode /\ isLocked

\* the flag a key is mapped to
FlagOf(code) ==
  CASE code \in {"ArrowUp", "KeyW"} -> moveForward
    [] code \in {"ArrowLeft", "KeyA"} -> moveLeft
    [] code \in {"ArrowDown", "KeyS"} -> moveBackward
    [] code \in {"ArrowRight", "KeyD"} -> moveRight

MoveKeys == Keys \ {"Space"}

\* two keys mapped to the same flag
SameDirection(c, code) ==
  \E pair \in {{"ArrowUp", "KeyW"}, {"ArrowLeft", "KeyA"}, {"ArrowDown", "KeyS"},
                {"ArrowRight", "KeyD"}} : c \in pair /\ code \in pair

(* Keys across modes: the application before the scene has loaded, with key *)
(* events, clicks, the toggle button, lock changes and frames.             *)

MaxKeyEvents == 4
MaxKeyTicks == 2

KeysEvent(A) ==
  nEvents < MaxKeyEvents /\ A /\ nEvents' = nEvents + 1 /\ UNCHANGED <<nTicks, delta, loader>>
KeysFrame(A) ==
  nTicks < MaxKeyTicks /\ A /\ nTicks' = nTicks + 1 /\ UNCHANGED <<nEvents, delta, loader>>

NextKeys ==
  \/ \E code \in Keys : KeysEvent(KeyDown(code))
  \/ \E code \in MoveKeys : KeysEvent(KeyUp(code))
  \/ KeysEvent(DocumentClick)
  \/ KeysEvent(ToggleClick)
  \/ KeysEvent(PointerLockChange)
  \/ KeysFrame(TickOverview)
  \/ KeysFrame(TickIdle)
  \/ \E dt \in Deltas : KeysFrame(TickActive(dt))

SpecKeys == Init /\ [][NextKeys]_vars

\* C29: a keydown of a movement key leaves its flag true, a keyup leaves it
\* false, whatever the flag, the mode and the lock were, and neither changes
\* the flags of the other three directions; a flag changes in no other step:
\* no frame, click or lock change modifies a movement flag.
LevelTriggeredFlags ==
  [][/\ lastOp'.op = "event" =>
          \A code \in MoveKeys :
            /\ FlagOf(code)' \/ ~KeyDown(code)
            /\ ~FlagOf(code)' \/ ~KeyUp(code)
            /\ \/ \A c \in MoveKeys :
                    FlagOf(c)' = FlagOf(c) \/ SameDirection(c, code)
               \/ ~(KeyDown(code) \/ KeyUp(code))
     /\ flagVars' # flagVars => \E code \in MoveKeys : KeyDown(code) \/ KeyUp(code)
     /\ lastOp'.op # "event" => UNCHANGED flagVars
    ]_vars

\* C29 witness: two flags set in first person are still set after a frame
\* taken in Overview
FlagsHeldThroughOverview ==
  /\ lastOp.op = "frame" /\ tk.branch = "overview"
  /\ moveForward /\ moveRight /\ ~moveLeft /\ ~moveBackward

-----------------------------------------------------------------------------
(* Loading the MPs: the module's top-level call of loadMPs, with every      *)
(* outcome of the base URL, of the two fetches and of the body.             *)

appVars == <<camera, yaw, velocity, moveForward, moveBackward, moveLeft, moveRight,
             canJump, isJumping, jumpVelocity, collisionObjects, sceneLoaded,
             overviewMode, orbitEnabled, orbitTarget, isLocked, lockPending,
             delta, lastOp, tk, nTicks, nEvents>>

LoadStep(A) == A /\ UNCHANGED appVars

NextLoad ==
  \/ \E baseIsAbsolute \in BOOLEAN : LoadStep(CallLoadMPs(baseIsAbsolute))
  \/ \E outcome \in FetchOutcomes : LoadStep(PrimarySettles(outcome))
  \/ \E outcome \in FetchOutcomes : LoadStep(FallbackSettles(outcome))
  \/ \E parsed \in Bodies : LoadStep(JsonSettles(parsed))
  \/ LoadStep(BuildMeshes)
  \/ \E callbackThrows \in BOOLEAN : LoadStep(CallerThen(callbackThrows))

SpecLoad == Init /\ [][NextLoad]_vars

\* a load failure: a fetch rejected, the fallback not ok, a body that does not
\* parse, or meshes that cannot be built
LoadFailed ==
  \/ loader.primary = "rejected"
  \/ loader.fallback \in {"notOk", "rejected"}
  \/ loader.body.kind = "syntaxError"
  \/ loader.pc \in {"settled", "end"} /\ loader.body.kind \in {"array", "notArray"}
       /\ ~CanBuild(loader.body)

\* C30: loadMPs never fails towards its caller.  Once called it neither throws
\* nor rejects; the fallback path /data/mps.json is fetched exactly once after
\* a primary response that is not ok, and never otherwise; a load failure makes
\* the promise resolve with the empty list; and when loading has ended the
\* caller's callback has received a list, its error branch being reached only
\* by a failure of the callback itself.
LoadNeverFails ==
  /\ loader.settled \in {"pending", "resolved"}
  /\ loader.fetches \in {<<>>, <<DataPath>>, <<DataPath, FallbackPath>>}
  /\ (Len(loader.fetches) = 2) = (loader.primary = "notOk")
  /\ LoadFailed => loader.settled = "resolved" /\ loader.value = <<>>
  /\ loader.pc = "end" =>
       /\ loader.caller \in {"then", "catch"}
       /\ loader.mpMeshes = loader.value
       /\ loader.caller = "catch" => loader.cause = "callback"

====
